---------------------------- MODULE Spec2Model ----------------------------
(***************************************************************************)
(* marinara, a pomodoro timer (src/src/main.rs).                           *)
(*                                                                         *)
(* The program is a command line tool with four commands (init, start,     *)
(* stop, status).  Each invocation runs to completion: it reads the config *)
(* file and the state file, possibly writes one of them, prints to stdout  *)
(* and exits.  The state between invocations is the two files; the clock   *)
(* is the environment.                                                     *)
(*                                                                         *)
(* Numbers.  Config.duration, Config.rest, State.started_at and the clock  *)
(* are u64.  TLC's integers are 32 bit wide, so a u64 is written here as   *)
(* four decimal limbs, most significant first, each below 10^6:            *)
(*     <<18, 446744, 73709, 551615>>  is  18446744073709551615 = 2^64 - 1  *)
(* The N* operators are exact arithmetic on such numbers (the top limb is  *)
(* not bounded, so sums and products of u64 values are exact); the u64     *)
(* operators on top of them overflow as Rust's do: a panic in a build with *)
(* overflow checks (debug), two's complement wrapping in one without       *)
(* (release).                                                              *)
(*                                                                         *)
(* Environment.  The directories resolve and the files can be read and     *)
(* written: the I/O errors that main would return with ? are not modelled. *)
(* The files are the user's to edit, so each may hold anything when an     *)
(* invocation starts.                                                      *)
(***************************************************************************)
EXTENDS Integers, Sequences, FiniteSets, TLC

(***************************************************************************)
(* Exact arithmetic on decimal limbs.                                      *)
(***************************************************************************)
Base == 10^6

\* The number n, for a TLC integer n >= 0.
Nat64(n) == <<0, 0, n \div Base, n % Base>>

\* Carries (or borrows) propagated from the least significant limb up.
Carry(t) ==
    LET c4 == t[4] \div Base
        c3 == (t[3] + c4) \div Base
        c2 == (t[2] + c3) \div Base
    IN  <<t[1] + c2, (t[2] + c3) % Base, (t[3] + c4) % Base, t[4] % Base>>

NAdd(x, y) == Carry(<<x[1] + y[1], x[2] + y[2], x[3] + y[3], x[4] + y[4]>>)

\* x - y; the top limb is negative exactly when x < y.
NSub(x, y) == Carry(<<x[1] - y[1], x[2] - y[2], x[3] - y[3], x[4] - y[4]>>)

\* x * k for a small k.
NMul(x, k) == Carry(<<x[1] * k, x[2] * k, x[3] * k, x[4] * k>>)

\* floor(x / k) for a small k, by long division.
NDiv(x, k) ==
    LET r1 == x[1] % k
        d2 == r1 * Base + x[2]
        d3 == (d2 % k) * Base + x[3]
        d4 == (d3 % k) * Base + x[4]
    IN  <<x[1] \div k, d2 \div k, d3 \div k, d4 \div k>>

\* x mod k for a small k.
NMod(x, k) ==
    LET d2 == (x[1] % k) * Base + x[2]
        d3 == (d2 % k) * Base + x[3]
        d4 == (d3 % k) * Base + x[4]
    IN  d4 % k

NLt(x, y) ==
    \/ x[1] < y[1]
    \/ x[1] = y[1] /\ x[2] < y[2]
    \/ x[1] = y[1] /\ x[2] = y[2] /\ x[3] < y[3]
    \/ x[1] = y[1] /\ x[2] = y[2] /\ x[3] = y[3] /\ x[4] < y[4]

NLe(x, y) == x = y \/ NLt(x, y)

Zero == Nat64(0)

(***************************************************************************)
(* Decimal formatting, as format!("{}", n) does for an unsigned integer.   *)
(***************************************************************************)
Digit(d) ==
    CASE d = 0 -> "0" [] d = 1 -> "1" [] d = 2 -> "2" [] d = 3 -> "3"
      [] d = 4 -> "4" [] d = 5 -> "5" [] d = 6 -> "6" [] d = 7 -> "7"
      [] d = 8 -> "8" [] d = 9 -> "9"

RECURSIVE Decimal(_)
Decimal(n) == IF n < 10 THEN Digit(n) ELSE Decimal(n \div 10) \o Digit(n % 10)

\* A limb that follows a more significant one: six digits, zero padded.
Padded(n) ==
    Digit(n \div 100000) \o Digit((n \div 10000) % 10) \o Digit((n \div 1000) % 10)
      \o Digit((n \div 100) % 10) \o Digit((n \div 10) % 10) \o Digit(n % 10)

to_string(x) ==
    IF x[1] # 0 THEN Decimal(x[1]) \o Padded(x[2]) \o Padded(x[3]) \o Padded(x[4])
    ELSE IF x[2] # 0 THEN Decimal(x[2]) \o Padded(x[3]) \o Padded(x[4])
    ELSE IF x[3] # 0 THEN Decimal(x[3]) \o Padded(x[4])
    ELSE Decimal(x[4])

(***************************************************************************)
(* u64 and its arithmetic.                                                 *)
(***************************************************************************)
TwoTo64 == <<18, 446744, 73709, 551616>>
U64_MAX == <<18, 446744, 73709, 551615>>
I64_MAX == <<9, 223372, 36854, 775807>>
U8_MAX  == Nat64(255)

\* The outcome of an arithmetic expression: a value, or a panic.
Value(v) == [panic |-> FALSE, v |-> v]
Panic    == [panic |-> TRUE, v |-> Zero]

\* a + b on u64: "attempt to add with overflow" where overflow is checked,
\* the sum modulo 2^64 where it is not.
u64_add(a, b, build) ==
    LET s == NAdd(a, b)
    IN  IF NLe(s, U64_MAX) THEN Value(s)
        ELSE IF build = "debug" THEN Panic
        ELSE Value(NSub(s, TwoTo64))

\* a - b on u64: "attempt to subtract with overflow", or the difference
\* modulo 2^64.
u64_sub(a, b, build) ==
    IF NLe(b, a) THEN Value(NSub(a, b))
    ELSE IF build = "debug" THEN Panic
    ELSE Value(NSub(NAdd(a, TwoTo64), b))

(***************************************************************************)
(* Config, State and Option<u64>.                                          *)
(***************************************************************************)
None    == [some |-> FALSE, v |-> Zero]
Some(t) == [some |-> TRUE, v |-> t]

Config(count, duration, rest) == [count |-> count, duration |-> duration, rest |-> rest]

\* impl Default for Config
Config_default == Config(Nat64(8), Nat64(25), Nat64(5))

State(started_at, config) == [started_at |-> started_at, config |-> config]

\* impl Default for State
State_default == State(None, Config_default)

(***************************************************************************)
(* State::display.  The result is the string returned, or a panic.         *)
(***************************************************************************)
Returned(s) == [panic |-> FALSE, s |-> s]
Panicked    == [panic |-> TRUE, s |-> ""]

\* display with the Work test written elapsed_min < duration.
display_work_lt(self, current_time, build) ==
    IF self.started_at.some
    THEN LET started_at  == self.started_at.v
             elapsed     == u64_sub(current_time, started_at, build)
             elapsed_min == NDiv(elapsed.v, 60)
             sum         == u64_add(self.config.duration, self.config.rest, build)
         IN  IF elapsed.panic THEN Panicked
             ELSE IF NLt(elapsed_min, self.config.duration)
             THEN Returned("W: " \o to_string(NSub(self.config.duration, elapsed_min)) \o "m")
             ELSE IF sum.panic THEN Panicked
             ELSE IF NLt(elapsed_min, sum.v)
             THEN Returned("R: " \o to_string(NSub(sum.v, elapsed_min)) \o "m")
             ELSE Returned("READY")
    ELSE Returned("no pomodoro running")

\* display with started_at.unwrap_or(0) in place of the if let.
display_unwrap_or(self, current_time, build) ==
    LET started_at  == self.started_at.v
        elapsed     == u64_sub(current_time, started_at, build)
        elapsed_min == NDiv(elapsed.v, 60)
        sum         == u64_add(self.config.duration, self.config.rest, build)
    IN  IF elapsed.panic THEN Panicked
        ELSE IF NLe(elapsed_min, self.config.duration)
        THEN Returned("W: " \o to_string(NSub(self.config.duration, elapsed_min)) \o "m")
        ELSE IF sum.panic THEN Panicked
        ELSE IF NLt(elapsed_min, sum.v)
        THEN Returned("R: " \o to_string(NSub(sum.v, elapsed_min)) \o "m")
        ELSE Returned("READY")

\* display with the minutes left taken from the seconds left, truncated:
\* (60 * duration - elapsed) / 60 and (60 * (duration + rest) - elapsed) / 60.
display_truncated(self, current_time, build) ==
    IF self.started_at.some
    THEN LET started_at  == self.started_at.v
             elapsed     == u64_sub(current_time, started_at, build)
             elapsed_min == NDiv(elapsed.v, 60)
             sum         == u64_add(self.config.duration, self.config.rest, build)
         IN  IF elapsed.panic THEN Panicked
             ELSE IF NLe(elapsed.v, NMul(self.config.duration, 60))
             THEN Returned("W: " \o to_string(NDiv(NSub(NMul(self.config.duration, 60), elapsed.v), 60)) \o "m")
             ELSE IF NLe(elapsed_min, self.config.duration)
             THEN Returned("W: 0m")
             ELSE IF sum.panic THEN Panicked
             ELSE IF NLt(elapsed_min, sum.v)
             THEN Returned("R: " \o to_string(NDiv(NSub(NMul(sum.v, 60), elapsed.v), 60)) \o "m")
             ELSE Returned("READY")
    ELSE Returned("no pomodoro running")

\* display that counts the minutes within the pomodoro of the set:
\* elapsed_min % (duration + rest).
display_repeating(self, current_time, build) ==
    IF self.started_at.some
    THEN LET started_at  == self.started_at.v
             elapsed     == u64_sub(current_time, started_at, build)
             sum         == u64_add(self.config.duration, self.config.rest, build)
             elapsed_min == IF sum.panic \/ sum.v = Zero \/ NLe(Nat64(Base), sum.v)
                            THEN NDiv(elapsed.v, 60)
                            ELSE Nat64(NMod(NDiv(elapsed.v, 60), sum.v[4]))
         IN  IF elapsed.panic THEN Panicked
             ELSE IF NLe(elapsed_min, self.config.duration)
             THEN Returned("W: " \o to_string(NSub(self.config.duration, elapsed_min)) \o "m")
             ELSE IF sum.panic THEN Panicked
             ELSE IF NLt(elapsed_min, sum.v)
             THEN Returned("R: " \o to_string(NSub(sum.v, elapsed_min)) \o "m")
             ELSE Returned("READY")
    ELSE Returned("no pomodoro running")

display(self, current_time, build) ==
    IF self.started_at.some
    THEN LET started_at  == self.started_at.v
             elapsed     == u64_sub(current_time, started_at, build)
             elapsed_min == NDiv(elapsed.v, 60)
             sum         == u64_add(self.config.duration, self.config.rest, build)
         IN  IF elapsed.panic THEN Panicked
             ELSE IF NLe(elapsed_min, self.config.duration)
             THEN Returned("W: " \o to_string(NSub(self.config.duration, elapsed_min)) \o "m")
             ELSE IF sum.panic THEN Panicked
             ELSE IF NLt(elapsed_min, sum.v)
             THEN Returned("R: " \o to_string(NSub(sum.v, elapsed_min)) \o "m")
             ELSE Returned("READY")
    ELSE Returned("no pomodoro running")

(***************************************************************************)
(* The two files.  A file is absent, or holds text that is not TOML        *)
(* ("garbage"), or holds a TOML table.  A table gives each key the program *)
(* reads a value: an integer as written (any decimal numeral), a string,   *)
(* or nothing (the key is missing).  The state file's table has the key    *)
(* started_at, the config file's the keys count, duration and rest; keys   *)
(* the program does not read are ignored by serde and are left out.        *)
(***************************************************************************)
Missing    == [type |-> "missing", v |-> Zero]
Integer(v) == [type |-> "integer", v |-> v]
String     == [type |-> "string", v |-> Zero]

NoTable              == [started_at |-> Missing]
StateTable(e)        == [started_at |-> e]
ConfigTable(c, d, r) == [count |-> c, duration |-> d, rest |-> r]

Absent      == [kind |-> "absent", table |-> NoTable]
Garbage     == [kind |-> "garbage", table |-> NoTable]
Toml(table) == [kind |-> "toml", table |-> table]

Ok(v)  == [ok |-> TRUE, v |-> v]
Err(v) == [ok |-> FALSE, v |-> v]

\* toml::to_string(&Config)
toml_to_string_Config(cfg) ==
    Toml(ConfigTable(Integer(cfg.count), Integer(cfg.duration), Integer(cfg.rest)))

\* toml::to_string(&State): a None field is not written, config is skipped.
toml_to_string_State(self) ==
    Toml(StateTable(IF self.started_at.some THEN Integer(self.started_at.v) ELSE Missing))

\* Config::cfg_path, as printed by init.
cfg_path == "config.toml"

\* State::save: the state file after self.save().
State_save(self) == toml_to_string_State(self)

\* State::reset: the state file after self.reset().
State_reset(self) == State_save(State(None, self.config))

(***************************************************************************)
(* The state: the files, the clock, the build, and what the last           *)
(* invocation was, printed and returned.  self and current_time are the    *)
(* receiver and the argument of a direct call of State::display, as the    *)
(* unit test makes them.  race is the state file byte by byte and the two  *)
(* invocations that run side by side on it.                                *)
(***************************************************************************)
VARIABLES cfgFile, stateFile, now, build, opt, stdout, exit, self, current_time, race

vars == <<cfgFile, stateFile, now, build, opt, stdout, exit, self, current_time, race>>

(***************************************************************************)
(* Reading the two files.                                                  *)
(***************************************************************************)
\* The TOML parser: the text is a table.  An integer is kept as written
\* and is converted when a field takes it.
toml_parses(file) == file.kind = "toml"

\* An integer as a field of type u64 takes it.
toml_u64(e) == e.type = "integer" /\ NLe(e.v, U64_MAX)

\* toml::from_str::<Config>: count (u8), duration and rest (u64) are all
\* required.
toml_from_str_Config(file) ==
    LET t == file.table
    IN  IF /\ toml_parses(file)
           /\ t.count.type = "integer" /\ NLe(t.count.v, U8_MAX)
           /\ toml_u64(t.duration)
           /\ toml_u64(t.rest)
        THEN Ok(Config(t.count.v, t.duration.v, t.rest.v))
        ELSE Err(Config_default)

\* toml::from_str::<State> with a parser whose integers are i64: a numeral
\* above i64::MAX is an error.
toml_from_str_State_i64(file) ==
    LET e == file.table.started_at
    IN  IF toml_parses(file) /\ (e.type = "missing" \/ (e.type = "integer" /\ NLe(e.v, I64_MAX)))
        THEN Ok(State(IF e.type = "integer" THEN Some(e.v) ELSE None, Config_default))
        ELSE Err(State_default)

\* toml::from_str::<State>: started_at is an Option, None when the key is
\* missing; config is #[serde(skip)] and takes its default.
toml_from_str_State(file) ==
    LET e == file.table.started_at
    IN  IF toml_parses(file) /\ (e.type = "missing" \/ toml_u64(e))
        THEN Ok(State(IF e.type = "integer" THEN Some(e.v) ELSE None, Config_default))
        ELSE Err(State_default)

\* Config::load: the default when the file cannot be opened; a parse
\* failure is returned to the caller.
Config_load(file) ==
    IF file.kind = "absent" THEN Ok(Config_default) ELSE toml_from_str_Config(file)

\* State::load
State_load(config, file) ==
    IF file.kind = "absent" THEN Ok(State_default)
    ELSE LET parsed == toml_from_str_State(file)
         IN  IF parsed.ok THEN Ok(State(parsed.v.started_at, config)) ELSE parsed

(***************************************************************************)
(* Bounds of the model.                                                    *)
(***************************************************************************)
\* The clock runs over the first and the last second of the minutes
\* 0 .. MaxMinutes.
MaxMinutes == 5
\* Config files hold durations 0 .. MaxDuration and rests 0 .. MaxRest.
MaxDuration == 2
MaxRest == 2

Times == { Nat64(60 * m + sec) : m \in 0 .. MaxMinutes, sec \in {0, 59} }

Builds == {"debug", "release"}

ConfigFiles ==
    {Absent, Garbage}
      \cup { toml_to_string_Config(Config(Nat64(8), Nat64(d), Nat64(r))) :
               d \in 0 .. MaxDuration, r \in 0 .. MaxRest }
      \cup { Toml(ConfigTable(Integer(Nat64(256)), Integer(Nat64(1)), Integer(Nat64(1)))),
             Toml(ConfigTable(Integer(Nat64(8)), Integer(Nat64(1)), Missing)),
             Toml(ConfigTable(Integer(Nat64(8)), String, Integer(Nat64(1)))),
             Toml(ConfigTable(Integer(Nat64(8)), Integer(Nat64(1)), Integer(U64_MAX))) }

StateFiles ==
    {Absent, Garbage}
      \cup { State_save(State(s, Config_default)) : s \in {None} \cup { Some(t) : t \in Times } }
      \cup { Toml(StateTable(String)),
             Toml(StateTable(Integer(I64_MAX))),
             Toml(StateTable(Integer(U64_MAX))) }

NoOpt == [cmd |-> "none", force |-> FALSE]

\* No invocations running side by side (see the last specification).
NoRace == [file |-> <<>>, p |-> <<>>]

Init ==
    /\ cfgFile \in ConfigFiles
    /\ stateFile \in StateFiles
    /\ now \in Times
    /\ build \in Builds
    /\ opt = NoOpt
    /\ stdout = <<>>
    /\ exit = 0
    /\ self = State_default
    /\ current_time = Zero
    /\ race = NoRace

\* Marinara::Init without the test of the flag.
MarinaraInit_unconditional(force) ==
    /\ opt' = [cmd |-> "init", force |-> force]
    /\ cfgFile' = toml_to_string_Config(Config_default)
    /\ stdout' = <<"wrote new config to " \o cfg_path>>
    /\ exit' = 0
    /\ UNCHANGED <<stateFile, now, build, self, current_time, race>>

\* Marinara::Init { force }
MarinaraInit(force) ==
    /\ opt' = [cmd |-> "init", force |-> force]
    /\ cfgFile' = IF force THEN toml_to_string_Config(Config_default) ELSE cfgFile
    /\ stdout' = IF force THEN <<"wrote new config to " \o cfg_path>> ELSE <<>>
    /\ exit' = 0
    /\ UNCHANGED <<stateFile, now, build, self, current_time, race>>

\* Marinara::Start {}
MarinaraStart ==
    LET config == Config_load(cfgFile)
    IN  /\ opt' = [cmd |-> "start", force |-> FALSE]
        /\ stdout' = <<>>
        /\ IF config.ok
           THEN /\ stateFile' = State_save(State(Some(now), config.v))
                /\ exit' = 0
           ELSE /\ stateFile' = stateFile
                /\ exit' = 1
        /\ UNCHANGED <<cfgFile, now, build, self, current_time, race>>

\* Marinara::Stop {}
MarinaraStop ==
    LET config == Config_load(cfgFile)
        state  == State_load(config.v, stateFile)
    IN  /\ opt' = [cmd |-> "stop", force |-> FALSE]
        /\ IF ~config.ok
           THEN /\ stateFile' = stateFile
                /\ stdout' = <<>>
                /\ exit' = 1
           ELSE IF state.ok
           THEN /\ stateFile' = State_reset(state.v)
                /\ stdout' = <<>>
                /\ exit' = 0
           ELSE /\ stateFile' = stateFile
                /\ stdout' = <<"no pomodoro running">>
                /\ exit' = 0
        /\ UNCHANGED <<cfgFile, now, build, self, current_time, race>>

\* Marinara::Status that resets the session once it is over.
MarinaraStatus_auto_reset ==
    LET config == Config_load(cfgFile)
        state  == State_load(config.v, stateFile)
        shown  == display(state.v, now, build)
    IN  /\ opt' = [cmd |-> "status", force |-> FALSE]
        /\ IF ~config.ok
           THEN /\ stdout' = <<"missing config Error">>
                /\ exit' = 0
                /\ stateFile' = stateFile
           ELSE IF ~state.ok
           THEN /\ stdout' = <<"no pomodoro running">>
                /\ exit' = 0
                /\ stateFile' = stateFile
           ELSE IF shown.panic
           THEN /\ stdout' = <<>>
                /\ exit' = 101
                /\ stateFile' = stateFile
           ELSE /\ stdout' = <<shown.s>>
                /\ exit' = 0
                /\ stateFile' = IF shown.s = "READY" THEN State_reset(state.v) ELSE stateFile
        /\ UNCHANGED <<cfgFile, now, build, self, current_time, race>>

\* Marinara::Status that starts the next pomodoro once the session is over.
MarinaraStatus_auto_restart ==
    LET config == Config_load(cfgFile)
        state  == State_load(config.v, stateFile)
        shown  == display(state.v, now, build)
    IN  /\ opt' = [cmd |-> "status", force |-> FALSE]
        /\ IF ~config.ok
           THEN /\ stdout' = <<"missing config Error">>
                /\ exit' = 0
                /\ stateFile' = stateFile
           ELSE IF ~state.ok
           THEN /\ stdout' = <<"no pomodoro running">>
                /\ exit' = 0
                /\ stateFile' = stateFile
           ELSE IF shown.panic
           THEN /\ stdout' = <<>>
                /\ exit' = 101
                /\ stateFile' = stateFile
           ELSE /\ stdout' = <<shown.s>>
                /\ exit' = 0
                /\ stateFile' = IF shown.s = "READY"
                                THEN State_save(State(Some(now), config.v))
                                ELSE stateFile
        /\ UNCHANGED <<cfgFile, now, build, self, current_time, race>>

\* Marinara::Status {}
MarinaraStatus ==
    LET config == Config_load(cfgFile)
        state  == State_load(config.v, stateFile)
        shown  == display(state.v, now, build)
    IN  /\ opt' = [cmd |-> "status", force |-> FALSE]
        /\ IF ~config.ok
           THEN /\ stdout' = <<"missing config Error">>
                /\ exit' = 0
           ELSE IF ~state.ok
           THEN /\ stdout' = <<"no pomodoro running">>
                /\ exit' = 0
           ELSE IF shown.panic
           THEN /\ stdout' = <<>>
                /\ exit' = 101
           ELSE /\ stdout' = <<shown.s>>
                /\ exit' = 0
        /\ UNCHANGED <<cfgFile, stateFile, now, build, self, current_time, race>>

\* The clock advances (SystemTime::now() of a later invocation).
Tick ==
    /\ \E t \in Times : NLt(now, t) /\ now' = t
    /\ UNCHANGED <<cfgFile, stateFile, build, opt, stdout, exit, self, current_time, race>>

Next ==
    \/ \E force \in BOOLEAN : MarinaraInit(force)
    \/ MarinaraStart
    \/ MarinaraStop
    \/ MarinaraStatus
    \/ Tick

Spec == Init /\ [][Next]_vars

(***************************************************************************)
(* State::display called directly, as test_display_for_state calls it: on  *)
(* a State built in place, at times that do not decrease.  The durations   *)
(* and rests are those a Config can hold, the default and numbers up to    *)
(* u64::MAX; the parser plays no part here.                                *)
(***************************************************************************)
DisplayTimes ==
    { Nat64(60 * m + sec) :
        m \in (0 .. MaxMinutes) \cup {10, 24, 25, 26, 29, 30}, sec \in {0, 1, 15, 40, 59} }

DisplayConfigs ==
    { Config(Nat64(8), d, r) :
        d \in { Nat64(k) : k \in 0 .. MaxDuration } \cup {Nat64(25), I64_MAX, U64_MAX},
        r \in { Nat64(k) : k \in 0 .. MaxRest } \cup {Nat64(5), I64_MAX, U64_MAX} }

DisplayStates ==
    { State(s, c) : s \in {None, Some(Zero), Some(Nat64(100))}, c \in DisplayConfigs }

InitDisplay ==
    /\ cfgFile = Absent
    /\ stateFile = Absent
    /\ now = Zero
    /\ build \in Builds
    /\ opt = NoOpt
    /\ stdout = <<>>
    /\ exit = 0
    /\ self \in DisplayStates
    /\ current_time = Zero
    /\ race = NoRace

\* format!("{}", self.display(t)), compared by assert_eq!: a panic fails
\* the test.
CallDisplay(t) ==
    LET shown == display(self, t, build)
    IN  /\ NLe(current_time, t)
        /\ current_time' = t
        /\ opt' = [cmd |-> "display", force |-> FALSE]
        /\ stdout' = IF shown.panic THEN <<>> ELSE <<shown.s>>
        /\ exit' = IF shown.panic THEN 101 ELSE 0
        /\ UNCHANGED <<cfgFile, stateFile, now, build, self, race>>

NextDisplay == \E t \in DisplayTimes : CallDisplay(t)

SpecDisplay == InitDisplay /\ [][NextDisplay]_vars

\* The same with more of the Configs the type allows: the least and the
\* greatest count, and sums of duration and rest around 2^64.
DisplayAnyConfigs ==
    DisplayConfigs
      \cup { Config(Nat64(c), d, r) :
               c \in {0, 255},
               d \in {Nat64(1), NAdd(I64_MAX, Nat64(1)), U64_MAX},
               r \in {Nat64(1), NAdd(I64_MAX, Nat64(1)), U64_MAX} }

InitDisplayAny ==
    /\ cfgFile = Absent
    /\ stateFile = Absent
    /\ now = Zero
    /\ build \in Builds
    /\ opt = NoOpt
    /\ stdout = <<>>
    /\ exit = 0
    /\ self \in { State(s, c) : s \in {None, Some(Zero), Some(Nat64(100))}, c \in DisplayAnyConfigs }
    /\ current_time = Zero
    /\ race = NoRace

SpecDisplayAny == InitDisplayAny /\ [][NextDisplay]_vars

(***************************************************************************)
(* State::save and State::load called directly on a State built in place:  *)
(* started_at is any Option<u64>, the config any the program can hold, and *)
(* the state file holds whatever it held before.                           *)
(***************************************************************************)
SaveLoadStarts ==
    {None} \cup { Some(t) : t \in Times \cup {I64_MAX, NAdd(I64_MAX, Nat64(1)), U64_MAX} }

SaveLoadConfigs ==
    {Config_default} \cup { Config(Nat64(8), Nat64(d), Nat64(r)) : d \in 1 .. MaxDuration, r \in 0 .. 1 }

InitSaveLoad ==
    /\ cfgFile = Absent
    /\ stateFile \in StateFiles
    /\ now = Zero
    /\ build \in Builds
    /\ opt = NoOpt
    /\ stdout = <<>>
    /\ exit = 0
    /\ self \in { State(s, c) : s \in SaveLoadStarts, c \in SaveLoadConfigs }
    /\ current_time = Zero
    /\ race = NoRace

\* self.save()
CallSave ==
    /\ stateFile' = State_save(self)
    /\ opt' = [cmd |-> "save", force |-> FALSE]
    /\ exit' = 0
    /\ UNCHANGED <<cfgFile, now, build, stdout, self, current_time, race>>

\* State::load(config): self is the state returned, and is left as it was
\* when load returns an error.
CallLoad(config) ==
    LET state == State_load(config, stateFile)
    IN  /\ self' = IF state.ok THEN state.v ELSE self
        /\ opt' = [cmd |-> "load", force |-> FALSE]
        /\ exit' = IF state.ok THEN 0 ELSE 1
        /\ UNCHANGED <<cfgFile, stateFile, now, build, stdout, current_time, race>>

NextSaveLoad ==
    \/ CallSave
    \/ \E config \in SaveLoadConfigs : CallLoad(config)

SpecSaveLoad == InitSaveLoad /\ [][NextSaveLoad]_vars

\* The four assertions of test_display_for_state.
test_display_for_state(b) ==
    /\ display(State(None, Config_default), Nat64(10), b) = Returned("no pomodoro running")
    /\ display(State(Some(Zero), Config_default), Nat64(600), b) = Returned("W: 15m")
    /\ display(State(Some(Zero), Config_default), Nat64(1600), b) = Returned("R: 4m")
    /\ display(State(Some(Zero), Config_default), Nat64(1801), b) = Returned("READY")

(***************************************************************************)
(* Two invocations side by side.  The state file is not locked, and an     *)
(* invocation touches it in separate system calls: State::load opens it    *)
(* and reads it until a read returns nothing; State::save creates it,      *)
(* which truncates it to no bytes, and then writes its buffer at offset 0  *)
(* of its own file descriptor, over whatever the file holds by then.  The  *)
(* file is modelled byte by byte, since a shorter buffer written over a    *)
(* longer one leaves the longer one's tail, and a reader may see a part of *)
(* each.  The config file is absent, so Config::load returns the default.  *)
(***************************************************************************)
\* The bytes "started_at = ".
KeyBytes == <<"s", "t", "a", "r", "t", "e", "d", "_", "a", "t", " ", "=", " ">>

RECURSIVE DecimalBytes(_)
DecimalBytes(n) ==
    IF n < 10 THEN <<Digit(n)>> ELSE DecimalBytes(n \div 10) \o <<Digit(n % 10)>>

PaddedBytes(n) ==
    << Digit(n \div 100000), Digit((n \div 10000) % 10), Digit((n \div 1000) % 10),
       Digit((n \div 100) % 10), Digit((n \div 10) % 10), Digit(n % 10) >>

\* The decimal numeral of x, byte by byte.
to_bytes(x) ==
    IF x[1] # 0 THEN DecimalBytes(x[1]) \o PaddedBytes(x[2]) \o PaddedBytes(x[3]) \o PaddedBytes(x[4])
    ELSE IF x[2] # 0 THEN DecimalBytes(x[2]) \o PaddedBytes(x[3]) \o PaddedBytes(x[4])
    ELSE IF x[3] # 0 THEN DecimalBytes(x[3]) \o PaddedBytes(x[4])
    ELSE DecimalBytes(x[4])

\* toml::to_string(&State) as bytes: "started_at = <numeral>\n", and no
\* bytes at all for None.
toml_to_bytes_State(state) ==
    IF state.started_at.some
    THEN KeyBytes \o to_bytes(state.started_at.v) \o <<"\n">>
    ELSE <<>>

DigitBytes == {"0", "1", "2", "3", "4", "5", "6", "7", "8", "9"}

DigitValue(c) ==
    CASE c = "0" -> 0 [] c = "1" -> 1 [] c = "2" -> 2 [] c = "3" -> 3
      [] c = "4" -> 4 [] c = "5" -> 5 [] c = "6" -> 6 [] c = "7" -> 7
      [] c = "8" -> 8 [] c = "9" -> 9

\* The number the digits lo .. hi of a decimal numeral denote (no digits,
\* no number: 0), for up to nine digits.
RECURSIVE from_digits(_, _, _)
from_digits(b, lo, hi) ==
    IF hi < lo \/ hi < 1 THEN 0
    ELSE 10 * from_digits(b, lo, hi - 1) + DigitValue(b[hi])

\* The number a decimal numeral of up to 24 digits denotes, limb by limb.
from_bytes(b) ==
    LET n == Len(b)
        from(lo, hi) == from_digits(b, IF lo < 1 THEN 1 ELSE lo, hi)
    IN  <<from(n - 23, n - 18), from(n - 17, n - 12), from(n - 11, n - 6), from(n - 5, n)>>

HexBytes ==
    DigitBytes \cup {"a", "b", "c", "d", "e", "f", "A", "B", "C", "D", "E", "F"}

HexValue(c) ==
    CASE c \in DigitBytes -> DigitValue(c)
      [] c \in {"a", "A"} -> 10 [] c \in {"b", "B"} -> 11 [] c \in {"c", "C"} -> 12
      [] c \in {"d", "D"} -> 13 [] c \in {"e", "E"} -> 14 [] c \in {"f", "F"} -> 15

\* The number the digits lo .. hi of a hexadecimal numeral denote, for up
\* to four digits.
RECURSIVE from_hex_digits(_, _, _)
from_hex_digits(b, lo, hi) ==
    IF hi < lo \/ hi < 1 THEN 0
    ELSE 16 * from_hex_digits(b, lo, hi - 1) + HexValue(b[hi])

\* x * 16^4
Shifted(x) == NMul(NMul(x, 256), 256)

\* The number a hexadecimal numeral of up to 16 digits denotes, four digits
\* at a time.
from_hex(b) ==
    LET n == Len(b)
        from(lo, hi) == Nat64(from_hex_digits(b, IF lo < 1 THEN 1 ELSE lo, hi))
    IN  NAdd(Shifted(NAdd(Shifted(NAdd(Shifted(from(n - 15, n - 12)), from(n - 11, n - 8))),
                          from(n - 7, n - 4))),
             from(n - 3, n))

(***************************************************************************)
(* The bytes of the state file in this specification: those of the texts   *)
(* State::save writes ("started_at = <numeral>\n") and of the files the    *)
(* invocations find (RaceFiles).  toml::from_str is given here for the     *)
(* texts of these bytes, whatever their order, and for no other text.  Of  *)
(* TOML such a text can hold blank lines and lines "key = value" with a    *)
(* bare key and a value that is a decimal integer, a hexadecimal integer   *)
(* or a float with an exponent and no fraction; it cannot hold a comment,  *)
(* a string, a boolean, a date, a sign, a table or an array.               *)
(***************************************************************************)
FileBytes == { KeyBytes[i] : i \in 1 .. Len(KeyBytes) } \cup DigitBytes \cup {"\n", "x"}

LetterBytes ==
    { "a", "b", "c", "d", "e", "f", "g", "h", "i", "j", "k", "l", "m",
      "n", "o", "p", "q", "r", "s", "t", "u", "v", "w", "x", "y", "z",
      "A", "B", "C", "D", "E", "F", "G", "H", "I", "J", "K", "L", "M",
      "N", "O", "P", "Q", "R", "S", "T", "U", "V", "W", "X", "Y", "Z" }

BareKeyBytes == LetterBytes \cup DigitBytes \cup {"_", "-"}

SpaceBytes == {" ", "\t"}

Min(a, b) == IF a <= b THEN a ELSE b
Max(a, b) == IF a >= b THEN a ELSE b

\* The length of the longest prefix of b with all its bytes in S, and with
\* none of them in S.
PrefixIn(b, S) ==
    CHOOSE n \in 0 .. Len(b) :
        /\ \A i \in 1 .. n : b[i] \in S
        /\ n < Len(b) => b[n + 1] \notin S
PrefixNotIn(b, S) ==
    CHOOSE n \in 0 .. Len(b) :
        /\ \A i \in 1 .. n : b[i] \notin S
        /\ n < Len(b) => b[n + 1] \in S

Drop(b, n) == SubSeq(b, n + 1, Len(b))
SkipSpaces(b) == Drop(b, PrefixIn(b, SpaceBytes))

RECURSIVE Lines(_)
Lines(b) ==
    LET n == PrefixNotIn(b, {"\n"})
    IN  IF n = Len(b) THEN <<b>> ELSE <<SubSeq(b, 1, n)>> \o Lines(Drop(b, n + 1))

\* Digits of S with single underscores between them.
Separated(b, S) ==
    /\ b # <<>>
    /\ \A i \in 1 .. Len(b) : b[i] \in S \cup {"_"}
    /\ b[1] # "_" /\ b[Len(b)] # "_"
    /\ \A i \in 1 .. Len(b) - 1 : ~(b[i] = "_" /\ b[i + 1] = "_")

NotUnderscore(c) == c # "_"
WithoutUnderscores(b) == SelectSeq(b, NotUnderscore)

\* A numeral without its leading zeros, down to one digit.
WithoutZeros(b) == Drop(b, Min(PrefixIn(b, {"0"}), Len(b) - 1))

\* A decimal integer: no leading zero.
IsDecimal(b) == Separated(b, DigitBytes) /\ (b[1] = "0" => Len(b) = 1)

\* a * 10^zeros < b, for decimal numerals a and b without leading zeros,
\* compared by length and then digit by digit.
NumeralLt(a, zeros, b) ==
    LET digit(i) == IF i <= Len(a) THEN DigitValue(a[i]) ELSE 0
        differ   == { i \in 1 .. Len(b) : digit(i) # DigitValue(b[i]) }
        first    == CHOOSE i \in differ : \A j \in differ : i <= j
    IN  \/ Len(a) + zeros < Len(b)
        \/ /\ Len(a) + zeros = Len(b)
           /\ differ # {}
           /\ digit(first) < DigitValue(b[first])

\* u128::MAX, the greatest integer the parser takes: 2^128 - 1.
U128_MAX_Bytes ==
    << "3", "4", "0", "2", "8", "2", "3", "6", "6", "9", "2", "0",
       "9", "3", "8", "4", "6", "3", "4", "6", "3", "3", "7", "4",
       "6", "0", "7", "4", "3", "1", "7", "6", "8", "2", "1", "1",
       "4", "5", "5" >>

\* The least number that is infinite as an f64: 2^1024 - 2^970, halfway
\* between f64::MAX and 2^1024.
F64_Overflow_Bytes ==
    << "1", "7", "9", "7", "6", "9", "3", "1", "3", "4", "8", "6",
       "2", "3", "1", "5", "8", "0", "7", "9", "3", "7", "2", "8",
       "9", "7", "1", "4", "0", "5", "3", "0", "3", "4", "1", "5",
       "0", "7", "9", "9", "3", "4", "1", "3", "2", "7", "1", "0",
       "0", "3", "7", "8", "2", "6", "9", "3", "6", "1", "7", "3",
       "7", "7", "8", "9", "8", "0", "4", "4", "4", "9", "6", "8",
       "2", "9", "2", "7", "6", "4", "7", "5", "0", "9", "4", "6",
       "6", "4", "9", "0", "1", "7", "9", "7", "7", "5", "8", "7",
       "2", "0", "7", "0", "9", "6", "3", "3", "0", "2", "8", "6",
       "4", "1", "6", "6", "9", "2", "8", "8", "7", "9", "1", "0",
       "9", "4", "6", "5", "5", "5", "5", "4", "7", "8", "5", "1",
       "9", "4", "0", "4", "0", "2", "6", "3", "0", "6", "5", "7",
       "4", "8", "8", "6", "7", "1", "5", "0", "5", "8", "2", "0",
       "6", "8", "1", "9", "0", "8", "9", "0", "2", "0", "0", "0",
       "7", "0", "8", "3", "8", "3", "6", "7", "6", "2", "7", "3",
       "8", "5", "4", "8", "4", "5", "8", "1", "7", "7", "1", "1",
       "5", "3", "1", "7", "6", "4", "4", "7", "5", "7", "3", "0",
       "2", "7", "0", "0", "6", "9", "8", "5", "5", "5", "7", "1",
       "3", "6", "6", "9", "5", "9", "6", "2", "2", "8", "4", "2",
       "9", "1", "4", "8", "1", "9", "8", "6", "0", "8", "3", "4",
       "9", "3", "6", "4", "7", "5", "2", "9", "2", "7", "1", "9",
       "0", "7", "4", "1", "6", "8", "4", "4", "4", "3", "6", "5",
       "5", "1", "0", "7", "0", "4", "3", "4", "2", "7", "1", "1",
       "5", "5", "9", "6", "9", "9", "5", "0", "8", "0", "9", "3",
       "0", "4", "2", "8", "8", "0", "1", "7", "7", "9", "0", "4",
       "1", "7", "4", "4", "9", "7", "7", "9", "2" >>

\* m * 10^e is finite as an f64, for a decimal integer m and the digits e
\* of an exponent: zero, or below the least infinite number.  An exponent
\* of four digits or more is beyond it whatever m is.
FiniteFloat(m, e) ==
    LET exp == WithoutZeros(e)
    IN  \/ m = <<"0">>
        \/ /\ Len(exp) <= 3
           /\ NumeralLt(m, from_digits(exp, 1, Len(exp)), F64_Overflow_Bytes)

\* A decimal integer is at most u128::MAX.
FitsU128(digits) == NumeralLt(digits, 0, U128_MAX_Bytes) \/ digits = U128_MAX_Bytes

\* A value: what it is, whether a u64 holds it, and the number if so.
NoValue           == [type |-> "invalid", fits |-> FALSE, v |-> Zero]
FloatValue        == [type |-> "float", fits |-> FALSE, v |-> Zero]
IntValue(digits)  == [type |-> "integer", fits |-> TRUE, v |-> digits]
BigValue          == [type |-> "integer", fits |-> FALSE, v |-> Zero]

\* 0x and hexadecimal digits; a decimal integer, an e and digits, which is
\* a float; a decimal integer.  An integer up to u128::MAX is kept as
\* written: only a field that takes it needs it in its own range.  An
\* integer above u128::MAX (more than 32 hexadecimal digits) and a float
\* that is infinite as an f64 are no values: the document is in error
\* whatever the key.
toml_scalar(tok) ==
    IF Len(tok) >= 2 /\ tok[1] = "0" /\ tok[2] = "x"
    THEN LET body   == Drop(tok, 2)
             digits == WithoutZeros(WithoutUnderscores(body))
         IN  IF Separated(body, HexBytes) /\ Len(digits) <= 32
             THEN IF Len(digits) <= 16 THEN IntValue(from_hex(digits)) ELSE BigValue
             ELSE NoValue
    ELSE IF \E i \in 1 .. Len(tok) : tok[i] \in {"e", "E"}
    THEN LET n == PrefixNotIn(tok, {"e", "E"})
         IN  IF /\ IsDecimal(SubSeq(tok, 1, n))
                /\ Separated(Drop(tok, n + 1), DigitBytes)
                /\ FiniteFloat(WithoutUnderscores(SubSeq(tok, 1, n)),
                               WithoutUnderscores(Drop(tok, n + 1)))
             THEN FloatValue
             ELSE NoValue
    ELSE IF IsDecimal(tok) /\ FitsU128(WithoutUnderscores(tok))
    THEN LET digits == WithoutUnderscores(tok)
         IN  IF Len(digits) <= 20 /\ NLe(from_bytes(digits), U64_MAX)
             THEN IntValue(from_bytes(digits))
             ELSE BigValue
    ELSE NoValue

\* A value and what follows it on the line: spaces at most.
toml_value(b) ==
    LET len == PrefixNotIn(b, SpaceBytes)
    IN  IF SkipSpaces(Drop(b, len)) # <<>> THEN NoValue ELSE toml_scalar(SubSeq(b, 1, len))

BlankLine        == [kind |-> "blank", key |-> <<>>, value |-> NoValue]
BadLine          == [kind |-> "error", key |-> <<>>, value |-> NoValue]
Pair(key, value) == [kind |-> "pair", key |-> key, value |-> value]

toml_line(l) ==
    LET l1 == SkipSpaces(l)
        n  == PrefixIn(l1, BareKeyBytes)
        l2 == SkipSpaces(Drop(l1, n))
        v  == toml_value(SkipSpaces(Drop(l2, 1)))
    IN  IF l1 = <<>> THEN BlankLine
        ELSE IF n = 0 \/ l2 = <<>> \/ l2[1] # "=" \/ v.type = "invalid" THEN BadLine
        ELSE Pair(SubSeq(l1, 1, n), v)

\* The name of the one key State has.
KeyName == SubSeq(KeyBytes, 1, 10)

\* toml::from_str::<State> on a text of FileBytes: the text is a document
\* with no key twice; started_at is None when the document has no such key
\* (other keys are ignored) and Some when its value is an integer a u64
\* holds; any other value of started_at is an error.
toml_from_bytes_State(b) ==
    CASE \A k \in 1 .. Len(b) : b[k] \in FileBytes ->
        LET ls    == Lines(b)
            line  == [i \in 1 .. Len(ls) |-> toml_line(ls[i])]
            pairs == { i \in 1 .. Len(ls) : line[i].kind = "pair" }
            here  == { i \in pairs : line[i].key = KeyName }
        IN  IF \/ \E i \in 1 .. Len(ls) : line[i].kind = "error"
               \/ \E i, j \in pairs : i # j /\ line[i].key = line[j].key
            THEN Err(State_default)
            ELSE IF here = {} THEN Ok(State(None, Config_default))
            ELSE LET v == line[CHOOSE i \in here : TRUE].value
                 IN  IF v.type = "integer" /\ v.fits
                     THEN Ok(State(Some(v.v), Config_default))
                     ELSE Err(State_default)

NoFile      == [exists |-> FALSE, bytes |-> <<>>]
File(bytes) == [exists |-> TRUE, bytes |-> bytes]

\* File::create: the file exists and is empty.
File_create(file) == File(<<>>)

\* write_all(buf) on a descriptor at offset 0: buf replaces the first
\* Len(buf) bytes, the bytes after them stay.
File_write_all(file, buf) ==
    File(buf \o SubSeq(file.bytes, Len(buf) + 1, Len(file.bytes)))

\* State::load on the bytes of the state file.
State_load_bytes(config, file) ==
    IF ~file.exists THEN Ok(State_default)
    ELSE LET parsed == toml_from_bytes_State(file.bytes)
         IN  IF parsed.ok THEN Ok(State(parsed.v.started_at, config)) ELSE parsed

RaceFiles ==
    { NoFile, File(<<"x">>) }
      \cup { File(toml_to_bytes_State(State(s, Config_default))) : s \in {None, Some(Nat64(7))} }

Procs == {1, 2}
Other(i) == 3 - i

(***************************************************************************)
(* file.read_to_string of the standard library on a File: it asks for the  *)
(* size of the file and reserves that many bytes in the String, then reads *)
(* into the spare capacity until a read returns no bytes.  When the String *)
(* is full at the capacity it began with, it reads into a buffer of        *)
(* PROBE_SIZE bytes on the stack instead, and grows the String only when   *)
(* the probe finds bytes.                                                  *)
(***************************************************************************)
PROBE_SIZE == 32
DEFAULT_BUF_SIZE == 8192

\* The capacity of a Vec<u8> of capacity cap and length len after
\* reserve(additional): unchanged when they fit, else the greatest of twice
\* the capacity, the length needed, and 8.
Vec_reserve(cap, len, additional) ==
    IF len + additional <= cap THEN cap ELSE Max(8, Max(2 * cap, len + additional))

\* The greatest number of bytes asked of one read into the String.
max_read_size(size_hint) ==
    ((size_hint + 1024 + DEFAULT_BUF_SIZE - 1) \div DEFAULT_BUF_SIZE) * DEFAULT_BUF_SIZE

\* An invocation before its first step: the command, where it is, the
\* clock value it read, the size of the file when read_to_string asked,
\* the capacity of its String then and now, the bytes it has read from the
\* state file, the bytes it is about to write, what it printed.
Proc(cmd) ==
    [cmd |-> cmd, pc |-> "main", t |-> Zero, size_hint |-> 0, start_cap |-> 0, cap |-> 0,
     text |-> <<>>, buf |-> <<>>, stdout |-> <<>>]

InitRace ==
    /\ cfgFile = Absent
    /\ stateFile = Absent
    /\ now \in Times
    /\ build \in Builds
    /\ opt = NoOpt
    /\ stdout = <<>>
    /\ exit = 0
    /\ self = State_default
    /\ current_time = Zero
    /\ \E file \in RaceFiles, c1, c2 \in {"start", "stop"} :
          race = [file |-> file, file0 |-> file, p |-> <<Proc(c1), Proc(c2)>>,
                  overlapped |-> FALSE]

\* The other invocation is between its first step and its last.
InFlight(i) == race.p[i].pc \in {"size", "read", "create", "write"}

Step(i, proc, file) ==
    /\ race' = [race EXCEPT !.p[i] = proc, !.file = file,
                            !.overlapped = @ \/ InFlight(Other(i))]
    /\ UNCHANGED <<cfgFile, stateFile, now, build, opt, stdout, exit, self, current_time>>

\* Marinara::Start up to toml::to_string in State::save: the config is the
\* default, started_at the clock's value.
RaceStart(i) ==
    LET config == Config_load(cfgFile)
        state  == State(Some(now), config.v)
    IN  /\ race.p[i].cmd = "start" /\ race.p[i].pc = "main"
        /\ Step(i, [race.p[i] EXCEPT !.pc = "create", !.t = now,
                                      !.buf = toml_to_bytes_State(state)],
                race.file)

\* Marinara::Stop, File::open in State::load: with no file the state is
\* the default, which state.reset() then saves.
RaceStopOpen(i) ==
    LET config == Config_load(cfgFile)
        state  == State_load_bytes(config.v, NoFile)
    IN  /\ race.p[i].cmd = "stop" /\ race.p[i].pc = "main"
        /\ Step(i, IF race.file.exists
                   THEN [race.p[i] EXCEPT !.pc = "size", !.text = <<>>]
                   ELSE [race.p[i] EXCEPT !.pc = "create",
                            !.buf = toml_to_bytes_State(State(None, state.v.config))],
                race.file)

\* Marinara::Stop, the start of file.read_to_string in State::load: the
\* size of the file by now (the descriptor is at offset 0) is the size
\* hint, and the empty String reserves as many bytes.
RaceStopSize(i) ==
    LET size_hint == Len(race.file.bytes)
        cap       == Vec_reserve(0, 0, size_hint)
    IN  /\ race.p[i].pc = "size"
        /\ Step(i, [race.p[i] EXCEPT !.pc = "read", !.size_hint = size_hint,
                                      !.start_cap = cap, !.cap = cap],
                race.file)

\* Marinara::Stop, one read of file.read_to_string in State::load: it
\* returns the bytes the file holds by now after those already read, as
\* many as were asked for at most.  A read of no bytes ends the loop:
\* toml::from_str parses what was read, and state.reset() sets started_at
\* to None, or stop prints "no pomodoro running".
RaceStopRead(i) ==
    LET config == Config_load(cfgFile)
        p      == race.p[i]
        text   == p.text
        len    == Len(text)
        probe  == len = p.cap /\ p.cap = p.start_cap
        cap    == IF ~probe /\ len = p.cap THEN Vec_reserve(p.cap, len, PROBE_SIZE) ELSE p.cap
        asked  == IF probe THEN PROBE_SIZE ELSE Min(cap - len, max_read_size(p.size_hint))
        chunk  == SubSeq(race.file.bytes, len + 1, Min(Len(race.file.bytes), len + asked))
        state  == State_load_bytes(config.v, File(text))
    IN  /\ p.pc = "read"
        /\ Step(i, IF chunk # <<>>
                   THEN [p EXCEPT !.text = text \o chunk,
                                  !.cap = IF probe THEN Vec_reserve(cap, len, Len(chunk)) ELSE cap]
                   ELSE IF state.ok
                   THEN [p EXCEPT !.pc = "create",
                                  !.buf = toml_to_bytes_State(State(None, state.v.config))]
                   ELSE [p EXCEPT !.pc = "done", !.stdout = <<"no pomodoro running">>],
                race.file)

\* File::create that opens the file without truncating it.
RaceCreate_no_truncate(i) ==
    /\ race.p[i].pc = "create"
    /\ Step(i, [race.p[i] EXCEPT !.pc = IF race.p[i].buf = <<>> THEN "done" ELSE "write"],
            File(race.file.bytes))

\* File::create in State::save; write_all of an empty buffer, which is
\* what a state without started_at serialises to, makes no system call.
RaceCreate(i) ==
    /\ race.p[i].pc = "create"
    /\ Step(i, [race.p[i] EXCEPT !.pc = IF race.p[i].buf = <<>> THEN "done" ELSE "write"],
            File_create(race.file))

\* file.write_all in State::save
RaceWrite(i) ==
    /\ race.p[i].pc = "write"
    /\ Step(i, [race.p[i] EXCEPT !.pc = "done"], File_write_all(race.file, race.p[i].buf))

NextRace ==
    \/ \E i \in Procs : RaceStart(i)
    \/ \E i \in Procs : RaceStopOpen(i)
    \/ \E i \in Procs : RaceStopSize(i)
    \/ \E i \in Procs : RaceStopRead(i)
    \/ \E i \in Procs : RaceCreate(i)
    \/ \E i \in Procs : RaceWrite(i)
    \/ Tick

SpecRace == InitRace /\ [][NextRace]_vars

(***************************************************************************)
(* What the claims about State::display speak of, in seconds and in exact  *)
(* arithmetic.                                                             *)
(***************************************************************************)
Called  == opt.cmd = "display"
Running == self.started_at.some
\* started_at <= current_time: the elapsed time is not negative.
InOrder == NLe(self.started_at.v, current_time)

elapsed        == NSub(current_time, self.started_at.v)
work_duration  == NMul(self.config.duration, 60)
rest_duration  == NMul(self.config.rest, 60)
total_duration == NAdd(work_duration, rest_duration)

\* Seconds as whole minutes, rounded down and rounded up.
FloorMinutes(sec) == NDiv(sec, 60)
CeilMinutes(sec)  == NDiv(NAdd(sec, Nat64(59)), 60)

WorkLine(n) == "W: " \o to_string(n) \o "m"
RestLine(n) == "R: " \o to_string(n) \o "m"

\* The call returned this string.
Shown(line) == exit = 0 /\ stdout = <<line>>

\* The same for a call of display on s at time t: elapsed is in
\* [0, work_duration], and the minutes of Work left, rounded up.
InWorkAt(o, s, t) ==
    /\ o.cmd = "display" /\ s.started_at.some /\ NLe(s.started_at.v, t)
    /\ NLe(NSub(t, s.started_at.v), NMul(s.config.duration, 60))
WorkLeftAt(s, t) ==
    CeilMinutes(NSub(NMul(s.config.duration, 60), NSub(t, s.started_at.v)))

InWork == InWorkAt(opt, self, current_time)

\* C1, as stated: whenever elapsed is in [0, work_duration], display
\* reports Work and the time it reports as remaining is exactly
\* work_duration - elapsed.
C1_WorkShowsExactRemaining ==
    InWork =>
        LET remaining == NSub(work_duration, elapsed)
        IN  NMod(remaining, 60) = 0 /\ Shown(WorkLine(FloorMinutes(remaining)))

C1_RoundedUp ==
    InWork =>
        /\ Shown(WorkLine(WorkLeftAt(self, current_time)))
        /\ elapsed = work_duration => Shown("W: 0m")

C1_NonIncreasing ==
    (InWorkAt(opt, self, current_time) /\ InWorkAt(opt', self', current_time')) =>
        /\ stdout = <<WorkLine(WorkLeftAt(self, current_time))>>
        /\ stdout' = <<WorkLine(WorkLeftAt(self', current_time'))>>
        /\ NLe(WorkLeftAt(self', current_time'), WorkLeftAt(self, current_time))

\* C1, amended: whenever elapsed is in [0, work_duration], display reports
\* Work with the remaining time work_duration - elapsed rounded up to whole
\* minutes; at elapsed = work_duration that is still Work, "W: 0m"; and
\* from one call to a later one the reported minutes never increase.
C1_WorkShowsRemainingRoundedUp == []C1_RoundedUp /\ [][C1_NonIncreasing]_vars

\* C1's case: 59 seconds of a two minute work phase are left, shown as one
\* minute; and the phase's last second.
C1_Witness ==
    /\ InWork
    /\ self.config.duration = Nat64(2)
    /\ elapsed = Nat64(61)
    /\ Shown("W: 1m")

\* C2: whenever elapsed is strictly between work_duration and work_duration
\* + rest_duration, display reports Rest, with the remaining time
\* (work_duration + rest_duration) - elapsed (at the resolution of the
\* status, whole minutes, rounded either way).  Stated for the configs of
\* the data model's invariant, work_duration > 0.
C2_RestBetweenWorkAndTotal ==
    (Called /\ Running /\ InOrder /\ NLt(Zero, work_duration)
       /\ NLt(work_duration, elapsed) /\ NLt(elapsed, total_duration)) =>
        LET remaining == NSub(total_duration, elapsed)
        IN  \/ Shown(RestLine(FloorMinutes(remaining)))
            \/ Shown(RestLine(CeilMinutes(remaining)))

\* C3: with work_duration > 0, whenever elapsed >= work_duration +
\* rest_duration display reports Done ("READY"), at that time and at every
\* later one.  Stated for elapsed > work_duration: with rest_duration = 0
\* and elapsed = work_duration, C1 gives the instant to Work.
C3_DoneFromTotalOn ==
    (Called /\ Running /\ InOrder /\ NLt(Zero, work_duration)
       /\ NLe(total_duration, elapsed) /\ NLt(work_duration, elapsed)) =>
        Shown("READY")

\* C4: with started_at = None display returns "no pomodoro running",
\* whatever the time and the config.
C4_IdleWhateverTheTime ==
    (Called /\ ~Running) => Shown("no pomodoro running")

\* C4's case: no session, a time after the epoch and a config that is not
\* the default.
C4_Witness ==
    /\ Called /\ ~Running
    /\ current_time = Nat64(1801)
    /\ self.config.duration = Nat64(1) /\ self.config.rest = I64_MAX
    /\ Shown("no pomodoro running")

\* C5: for a running session display shows the configured minutes minus
\* the whole elapsed minutes m: "W: {duration - m}m" when m <= duration,
\* "R: {duration + rest - m}m" when duration < m < duration + rest, "READY"
\* otherwise; for the default config started at 0 that is "W: 15m" at 600,
\* "R: 4m" at 1600 and "READY" at 1801.  (It fails where duration + rest
\* exceeds u64::MAX, the overflow of C16; below that it holds.)
C5_MinutesByCases ==
    /\ (Called /\ Running /\ InOrder) =>
          LET m == FloorMinutes(elapsed)
              d == self.config.duration
              t == NAdd(self.config.duration, self.config.rest)
          IN  Shown(IF NLe(m, d) THEN WorkLine(NSub(d, m))
                    ELSE IF NLt(m, t) THEN RestLine(NSub(t, m))
                    ELSE "READY")
    /\ test_display_for_state(build)
    /\ (Called /\ self = State(Some(Zero), Config(Nat64(8), Nat64(25), Nat64(5)))) =>
          /\ current_time = Nat64(600) => Shown("W: 15m")
          /\ current_time = Nat64(1600) => Shown("R: 4m")
          /\ current_time = Nat64(1801) => Shown("READY")

\* A Work or a Rest status, whatever number it shows among those the
\* config and the elapsed minutes can make.
ShownMinutes ==
    { n \in { NSub(x, Nat64(k)) :
                x \in {self.config.duration, NAdd(self.config.duration, self.config.rest)},
                k \in 0 .. 31 } : NLe(Zero, n) }
IsWork == \E n \in ShownMinutes : Shown(WorkLine(n))
IsRest == \E n \in ShownMinutes : Shown(RestLine(n))

\* C6, as stated: the number of a Work or Rest status is the remaining
\* seconds as truncated minutes when 60 or more remain, and the remaining
\* seconds themselves, with an "s", when fewer do.  Stated for the configs
\* of the data model's invariant, work_duration > 0.
C6_TruncatedMinutesOrSeconds ==
    (Called /\ Running /\ InOrder /\ NLt(Zero, work_duration)) =>
        LET left(until) == NSub(until, elapsed)
            render(letter, sec) ==
                IF NLe(Nat64(60), sec)
                THEN letter \o ": " \o to_string(FloorMinutes(sec)) \o "m"
                ELSE letter \o ":" \o to_string(sec) \o "s"
        IN  /\ NLe(elapsed, work_duration) => Shown(render("W", left(work_duration)))
            /\ (NLt(work_duration, elapsed) /\ NLt(elapsed, total_duration) /\ IsRest)
                  => Shown(render("R", left(total_duration)))

\* C6, amended: the number of a Work or Rest status is the remaining time
\* in seconds rounded up to whole minutes, always with an "m": with work =
\* 25 min, rest = 5 min and started_at = 0, now = 1600 (200 s left) is
\* "R: 4m", and 45 s left of Work is "W: 1m".
C6_RoundedUpMinutes ==
    (Called /\ Running /\ InOrder) =>
        /\ IsWork => Shown(WorkLine(CeilMinutes(NSub(work_duration, elapsed))))
        /\ IsRest => Shown(RestLine(CeilMinutes(NSub(total_duration, elapsed))))
        /\ self.config = Config(Nat64(8), Nat64(25), Nat64(5)) =>
              /\ elapsed = Nat64(1600) => Shown("R: 4m")
              /\ elapsed = Nat64(1455) => Shown("W: 1m")

\* C6's case: 45 seconds of Work are left.
C6_Witness ==
    /\ Called /\ Running /\ InOrder
    /\ self.config = Config(Nat64(8), Nat64(25), Nat64(5))
    /\ elapsed = Nat64(1455)
    /\ IsWork
    /\ Shown("W: 1m")

(***************************************************************************)
(* The commands.  A step that leaves the clock alone is an invocation, and *)
(* opt' is the command it ran.                                             *)
(***************************************************************************)
\* The state file holds a session: it parses and has a started_at.
Persisted(file) == State_load(Config_default, file)
RunningOnDisk(file) == Persisted(file).ok /\ Persisted(file).v.started_at.some

\* C7: start, run at clock value now, leaves the persisted state with
\* started_at = Some(now), whatever was persisted before.
C7_StartSetsStartedAt ==
    [][(now' = now /\ opt'.cmd = "start") =>
          (Persisted(stateFile').ok /\ Persisted(stateFile').v.started_at = Some(now))]_vars

\* C8: stop leaves no started_at persisted, and a status that is the next
\* command after it prints "no pomodoro running"; with no state file stop
\* succeeds and reports nothing.
C8_StopClearsStartedAt ==
    [][/\ (now' = now /\ opt'.cmd = "stop") =>
             /\ ~RunningOnDisk(stateFile')
             /\ stateFile.kind = "absent" => (exit' = 0 /\ stdout' = <<>>)
       /\ (now' = now /\ opt.cmd = "stop" /\ opt'.cmd = "status") =>
             (exit' = 0 /\ stdout' = <<"no pomodoro running">>)]_vars

\* C9: status changes neither the config file nor the state file, whatever
\* they hold and whatever the time.
C9_StatusWritesNothing ==
    [][(now' = now /\ opt'.cmd = "status") =>
          (cfgFile' = cfgFile /\ stateFile' = stateFile)]_vars

\* C9's case: status has run on a session that is over and reported it,
\* and the session is still on disk.
C9_Witness ==
    /\ opt.cmd = "status"
    /\ stdout = <<"READY">>
    /\ RunningOnDisk(stateFile)

\* C10: init --force writes the default config (count 8, work 25 min, rest
\* 5 min); init without the flag does nothing and leaves the config file as
\* it is; neither touches the state file.
C10_InitWritesOnlyWhenForced ==
    [][(now' = now /\ opt'.cmd = "init") =>
          /\ stateFile' = stateFile
          /\ opt'.force =>
                /\ cfgFile'.kind = "toml"
                /\ Config_load(cfgFile') = Ok(Config(Nat64(8), Nat64(25), Nat64(5)))
          /\ ~opt'.force =>
                (cfgFile' = cfgFile /\ stdout' = <<>> /\ exit' = 0)]_vars

\* C10's case: init --force has replaced a config while a session is
\* running.
C10_Witness ==
    /\ opt = [cmd |-> "init", force |-> TRUE]
    /\ stdout = <<"wrote new config to config.toml">>
    /\ Config_load(cfgFile) = Ok(Config(Nat64(8), Nat64(25), Nat64(5)))
    /\ RunningOnDisk(stateFile)

(***************************************************************************)
(* Sequences of commands.  What a status run on these files at this time   *)
(* prints and returns; status leaves the files as they are (C9), so a      *)
(* status has reported a line in some state exactly when it would report   *)
(* it in a state with the same files, clock and build.                     *)
(***************************************************************************)
StatusAt(cfg, st, t, b) ==
    LET config == Config_load(cfg)
        state  == State_load(config.v, st)
        shown  == display(state.v, t, b)
    IN  IF ~config.ok THEN [stdout |-> <<"missing config Error">>, exit |-> 0]
        ELSE IF ~state.ok THEN [stdout |-> <<"no pomodoro running">>, exit |-> 0]
        ELSE IF shown.panic THEN [stdout |-> <<>>, exit |-> 101]
        ELSE [stdout |-> <<shown.s>>, exit |-> 0]

\* The session on disk is over at t: it began at or before t, as one that a
\* start of the sequence began under a clock that does not go back, and a
\* status reports "READY".
DoneAt(cfg, st, t, b) ==
    /\ RunningOnDisk(st) /\ NLe(Persisted(st).v.started_at.v, t)
    /\ StatusAt(cfg, st, t, b) = [stdout |-> <<"READY">>, exit |-> 0]

\* C11, as stated: once a status reports "READY", every step other than a
\* start or a stop (a status, an init with or without --force, the clock
\* advancing) leaves the session Done, and a status then run reports
\* "READY".  Stated for the configs of the data model's invariant,
\* work_duration > 0.
C11_DoneStickyUntilStartOrStop ==
    [][(DoneAt(cfgFile, stateFile, now, build)
          /\ Config_load(cfgFile).ok /\ NLt(Zero, Config_load(cfgFile).v.duration)
          /\ ~(now' = now /\ opt'.cmd \in {"start", "stop"})) =>
          /\ DoneAt(cfgFile', stateFile', now', build')
          /\ (now' = now /\ opt'.cmd = "status") => stdout' = <<"READY">>]_vars

\* C11, amended: once a status reports "READY", every step other than a
\* start, a stop or an init --force (a status, an init without --force, the
\* clock advancing) leaves the session Done, and a status then run reports
\* "READY".
C11_DoneStickyUntilStartStopOrForcedInit ==
    [][(DoneAt(cfgFile, stateFile, now, build)
          /\ ~(now' = now /\ opt'.cmd \in {"start", "stop"})
          /\ ~(now' = now /\ opt'.cmd = "init" /\ opt'.force)) =>
          /\ DoneAt(cfgFile', stateFile', now', build')
          /\ (now' = now /\ opt'.cmd = "status") => stdout' = <<"READY">>]_vars

\* C11's case: a status reports "READY" at the last minute of the clock for
\* a session of one minute of work and one of rest started at 0, which has
\* been over since 120.
C11_Witness ==
    /\ opt.cmd = "status"
    /\ stdout = <<"READY">>
    /\ now = Nat64(60 * MaxMinutes + 59)
    /\ Persisted(stateFile).v.started_at = Some(Zero)
    /\ Config_load(cfgFile) = Ok(Config(Nat64(8), Nat64(1), Nat64(1)))

NoConfig(cfg) == cfg.kind = "absent" \/ ~toml_from_str_Config(cfg).ok

\* C13: when the config file is missing or cannot be parsed Config::load
\* returns the default config, and start, stop and status run as they do
\* with the default config: start records the session, stop leaves none,
\* status prints what it prints with no config file.
C13_ConfigLoadFallsBackToDefault ==
    [][(now' = now /\ opt'.cmd \in {"start", "stop", "status"} /\ NoConfig(cfgFile)) =>
          /\ Config_load(cfgFile) = Ok(Config_default)
          /\ opt'.cmd = "start" =>
                (exit' = 0 /\ Persisted(stateFile').v.started_at = Some(now))
          /\ opt'.cmd = "stop" =>
                (exit' = 0 /\ ~RunningOnDisk(stateFile'))
          /\ opt'.cmd = "status" =>
                (/\ [stdout |-> stdout', exit |-> exit'] = StatusAt(Absent, stateFile, now, build)
                 /\ stateFile' = stateFile)]_vars

\* What a stop run on these files prints and returns, and whether a session
\* is on disk after it.
StopAt(cfg, st) ==
    LET config == Config_load(cfg)
        state  == State_load(config.v, st)
    IN  IF ~config.ok THEN [stdout |-> <<>>, exit |-> 1, running |-> RunningOnDisk(st)]
        ELSE IF state.ok
        THEN [stdout |-> <<>>, exit |-> 0, running |-> RunningOnDisk(State_reset(state.v))]
        ELSE [stdout |-> <<"no pomodoro running">>, exit |-> 0, running |-> RunningOnDisk(st)]

\* The state file is there and cannot be parsed as a State.
Unparseable(st) == st.kind # "absent" /\ ~toml_from_str_State(st).ok

\* C14: with a config that loads, a status or a stop run on a state file
\* that cannot be parsed prints and returns what it does with no state
\* file, and leaves no session on disk: status prints "no pomodoro
\* running", stop prints what it prints with no state file.
C14_UnparseableStateAsMissing ==
    [][(now' = now /\ opt'.cmd \in {"stop", "status"}
          /\ Config_load(cfgFile).ok /\ Unparseable(stateFile)) =>
          /\ ~RunningOnDisk(stateFile')
          /\ opt'.cmd = "status" =>
                /\ [stdout |-> stdout', exit |-> exit'] = StatusAt(cfgFile, Absent, now, build)
                /\ stdout' = <<"no pomodoro running">>
          /\ opt'.cmd = "stop" =>
                /\ stdout' = StopAt(cfgFile, Absent).stdout
                /\ exit' = StopAt(cfgFile, Absent).exit]_vars

(***************************************************************************)
(* Invocations side by side.  An invocation is its command and, for a      *)
(* start, the clock value it read; run alone on a file it leaves the file  *)
(* Whole gives.                                                            *)
(***************************************************************************)
Whole(file, proc) ==
    IF proc.cmd = "start"
    THEN File(toml_to_bytes_State(State(Some(proc.t), Config_default)))
    ELSE IF State_load_bytes(Config_default, file).ok
    THEN File(toml_to_bytes_State(State(None, Config_default)))
    ELSE file

\* The files the two serial executions of the two invocations end with.
SerialOutcomes ==
    { Whole(Whole(race.file0, race.p[1]), race.p[2]),
      Whole(Whole(race.file0, race.p[2]), race.p[1]) }

BothDone == \A i \in Procs : race.p[i].pc = "done"

\* The session a file holds, or the error of loading it.
PersistedBytes(file) == State_load_bytes(Config_default, file)

\* The session on disk is one that no serial execution leaves.
NotSerial == PersistedBytes(race.file) \notin { PersistedBytes(f) : f \in SerialOutcomes }

\* C15: two invocations of start and/or stop that run one after the other
\* end with a serial outcome, and some interleaving of their reads and
\* writes (C15_Witness) ends with a persisted state that no serial
\* execution of the two produces: a state other than a serial outcome is
\* found only after steps of one invocation between the steps of the other.
C15_OnlyInterleavingsLeaveSerialOutcomes ==
    (BothDone /\ ~race.overlapped) => race.file \in SerialOutcomes

\* C15's case: both invocations have ended, their steps interleaved, and
\* the state file holds what neither serial execution leaves: it cannot be
\* loaded.
C15_Witness ==
    /\ BothDone /\ race.overlapped
    /\ NotSerial
    /\ ~PersistedBytes(race.file).ok

\* C16: for every config (count in u8, duration and rest in u64), every
\* started_at and every current time >= started_at, display returns one of
\* its four results: it does not panic, and where it computes duration +
\* rest the sum does not overflow.
C16_DisplayIsTotal ==
    (Called /\ InOrder) =>
        /\ exit = 0
        /\ \/ Shown("no pomodoro running") \/ Shown("READY") \/ IsWork \/ IsRest
        /\ (Running /\ NLt(self.config.duration, FloorMinutes(elapsed))) =>
              NLe(NAdd(self.config.duration, self.config.rest), U64_MAX)

(***************************************************************************)
(* The phase a line of status reports.                                     *)
(***************************************************************************)
MaxShown == 31
WorkLines == { WorkLine(Nat64(k)) : k \in 0 .. MaxShown }
RestLines == { RestLine(Nat64(k)) : k \in 0 .. MaxShown }

\* 1 for Work, 2 for Rest, 3 for Done, 0 for anything else.
PhaseOf(out) ==
    IF out.exit # 0 \/ Len(out.stdout) # 1 THEN 0
    ELSE IF out.stdout[1] \in WorkLines THEN 1
    ELSE IF out.stdout[1] \in RestLines THEN 2
    ELSE IF out.stdout[1] = "READY" THEN 3
    ELSE 0

\* A session is on disk and it began at or before t.
SessionAt(st, t) == RunningOnDisk(st) /\ NLe(Persisted(st).v.started_at.v, t)

\* C17: for a session on disk, over every step that is not a start or a
\* stop and leaves the config file as it is (a status, an init without
\* --force, the clock advancing), the phase status reports does not go
\* back: after Work it is Work, Rest or Done, after Rest it is Rest or
\* Done, after Done it is Done, when a phase is reported at all (a status
\* that panics reports none); and a status step prints that phase.
C17_PhasesNeverGoBack ==
    [][(SessionAt(stateFile, now)
          /\ ~(now' = now /\ opt'.cmd \in {"start", "stop"})
          /\ cfgFile' = cfgFile
          /\ PhaseOf(StatusAt(cfgFile, stateFile, now, build)) \in 1 .. 3) =>
          /\ PhaseOf(StatusAt(cfgFile', stateFile', now', build')) \in
                {0} \cup (PhaseOf(StatusAt(cfgFile, stateFile, now, build)) .. 3)
          /\ (now' = now /\ opt'.cmd = "status") =>
                PhaseOf([stdout |-> stdout', exit |-> exit'])
                   = PhaseOf(StatusAt(cfgFile, stateFile, now, build))]_vars

\* C17's case: a status reports Rest for a session for which, when it
\* began, a status reported Work.
C17_Witness ==
    /\ opt.cmd = "status"
    /\ SessionAt(stateFile, now)
    /\ PhaseOf([stdout |-> stdout, exit |-> exit]) = 2
    /\ PhaseOf(StatusAt(cfgFile, stateFile, Persisted(stateFile).v.started_at.v, build)) = 1

\* C18: with started_at <= now, a Work status shows a number of minutes in
\* [0, duration] and a Rest status one in [1, rest - 1]: "R: 0m" and a Rest
\* status with the whole rest are never shown, and with rest <= 1 no Rest
\* status is.
C18_ShownMinutesWithinConfig ==
    (Called /\ Running /\ InOrder /\ exit = 0) =>
        /\ \/ Shown("READY")
           \/ \E n \in ShownMinutes :
                 Shown(WorkLine(n)) /\ NLe(n, self.config.duration)
           \/ \E n \in ShownMinutes :
                 /\ Shown(RestLine(n))
                 /\ NLe(Nat64(1), n) /\ NLe(n, NSub(self.config.rest, Nat64(1)))
        /\ ~Shown("R: 0m")
        /\ ~Shown(RestLine(self.config.rest))
        /\ NLe(self.config.rest, Nat64(1)) => \A n \in ShownMinutes : ~Shown(RestLine(n))

\* C18's case: the last minute of a rest of two minutes, the only Rest
\* status that config has.
C18_Witness ==
    /\ Called /\ Running /\ InOrder
    /\ self.config.duration = Nat64(1) /\ self.config.rest = Nat64(2)
    /\ elapsed = Nat64(120)
    /\ Shown("R: 1m")
=============================================================================
